---- MODULE Spec2Model ----
(***************************************************************************)
(* Model of the authenticated HTTP client of no-gap-gas-ui:                *)
(*   src/src/lib/api.ts            token store, axios interceptors,        *)
(*                                 single-flight refresh, authApi, userApi *)
(*   src/src/contexts/AuthContext.tsx   fetchUser, login, logout           *)
(*   src/src/types/api.ts          AuthenticatedImage                      *)
(*                                                                         *)
(* JavaScript runs one event-loop task at a time, so every action below is *)
(* one task: the delivery of one network response together with all the    *)
(* promise continuations it runs, or one call made by the UI.              *)
(***************************************************************************)
EXTENDS Integers, Sequences, FiniteSets, TLC

\* ------------------------------------------------------------------ bounds
NApp == 1          \* number of protected calls the pages make through the client
MaxRefresh == 2    \* the server's 401 answers start at most MaxRefresh refresh calls
MaxReads == 2      \* reads of the token store that are followed between two writes
MaxSrcChanges == 2 \* changes of the src prop in the life of one AuthenticatedImage
MaxPolls == 3      \* the refetch timer of the job-details page starts at most MaxPolls fetches

\* ------------------------------------------------------------------ values
None == "none"                     \* localStorage.getItem(...) === null / header not set
AccessTokens == {"A1", "A2"}       \* opaque, non-empty bearer strings
RefreshTokens == {"R1", "R2"}
NoUser == "null"
SomeUser == "user"

\* A request URL is the list of its path segments: '/auth/login' is <<"auth","login">>.
UrlLogin == <<"auth", "login">>
UrlRegister == <<"auth", "register">>
UrlLogout == <<"auth", "logout">>
UrlMe == <<"me">>
UrlJob == <<"jobs", "1">>
UrlScreenshot == <<"screenshots", "1", "a.png">>

\* The protected calls of the pages, such as jobsApi.get.
AppUrls == {UrlJob}

\* Requests: NApp calls of the pages, the calls of the session controller (the
\* call of the login form, login or register, the current-user call and the
\* logout call), and the api.get of an AuthenticatedImage.
AppReq == {<<"app", i>> : i \in 1..NApp}
LoginReq == <<"login", 0>>
MeReq == <<"me", 0>>
LogoutReq == <<"logout", 0>>
MediaReq == <<"media", 0>>
Req == AppReq \cup {LoginReq, MeReq, LogoutReq, MediaReq}

\* Outcomes of a failed call: 401, or anything else (another status, or a
\* network error, which has no response and so no status 401 either).
Unauthorized == "401"
OtherError == "500"
ErrorStatus == {Unauthorized, OtherError}

VARIABLES
    localStorage,        \* [access_token, refresh_token]
    isRefreshing,        \* api.ts:58
    refreshSubscribers,  \* api.ts:59, the requests whose callbacks wait, in order
    refreshWire,         \* the requests whose call to /auth/refresh is in flight
    st,                  \* per request: idle, reserved, sent, refreshing, queued, resolved, rejected
    url,                 \* per request: config.url
    hdr,                 \* per request: the token of the Authorization header of its call
                         \* on the wire (of its refresh call while it is refreshing)
    user,                \* AuthContext: useState<User | null>
    redirects,           \* number of assignments window.location.href = '/login'
    refreshIssued,       \* number of calls to /auth/refresh dispatched so far
    orphaned,            \* requests that were on the waiting list when a refresh failed
    last                 \* the task that ran last

vars == <<localStorage, isRefreshing, refreshSubscribers, refreshWire, st, url,
          hdr, user, redirects, refreshIssued, orphaned, last>>

\* The token store seen from its callers: the last write of the store and the
\* reads made since.
VARIABLES
    written,             \* [op, a, b]: the last write and its arguments
    reads                \* the reads since that write, [fn, value], in order

storeVars == <<localStorage, written, reads>>

\* One instance of AuthenticatedImage (types/api.ts:143-226) and the object
\* URLs of the page.
VARIABLES
    mounted,             \* the instance is in the tree
    src,                 \* the src prop of the last render
    blobUrl,             \* useState, as of the last render
    isLoading,           \* useState, as of the last render
    hasError,            \* useState, as of the last render
    updates,             \* the set-state calls made since the last render
    effects,             \* the runs of the fetch effect: [isMounted, objectUrl, fetch]
    created,             \* URL.createObjectURL calls so far; the URLs are 1..created
    revoked              \* per URL, the number of URL.revokeObjectURL calls on it

imageVars == <<mounted, src, blobUrl, isLoading, hasError, updates, effects,
               created, revoked>>

\* The start of the session controller (AuthContext.tsx:19, 31-40).
VARIABLES
    sessionIsLoading,    \* AuthContext: useState(true), isLoading
    initAuth             \* the position of initAuth: notRun, awaiting, done

startupVars == <<sessionIsLoading, initAuth>>

\* The query of the job-details page (JobDetails.tsx:46-54).
VARIABLES
    jobData,             \* query.state.data?.status, "undefined" without data
    jobFetch,            \* the query: unmounted, fetching, idle
    pollTimer,           \* the delay of the armed refetch timer in ms, NoPoll if none
    pollDue,             \* that delay has passed since the timer was armed
    polls,               \* the number of refetches the timer has started
    serverStatus         \* the status of the job on the server

pollVars == <<jobData, jobFetch, pollTimer, pollDue, polls, serverStatus>>

appVars == <<startupVars, pollVars>>

\* What no task of the HTTP client touches.
pageVars == <<written, reads, imageVars, appVars>>

allVars == <<vars, written, reads, imageVars, appVars>>

\* What no render of the image and no completion of its fetch touches by
\* itself.
sessionVars == <<vars, written, reads, appVars>>

Sources == {"s1", "s2"}

\* blobUrl and objectUrl start as null.
NoUrl == 0

\* No set-state call is waiting for the next render.
NoUpdates == [blobUrl |-> {}, isLoading |-> {}, hasError |-> {}]

\* The store has not been written by the page yet.
Write(op, a, b) == [op |-> op, a |-> a, b |-> b]

StoreIdle == written = Write("init", "none", "none") /\ reads = <<>>

\* The provider has rendered and its effect has not run yet.
StartupIdle == sessionIsLoading = TRUE /\ initAuth = "notRun"

\* query.state.data of a query that is not mounted yet is undefined.
NoData == "undefined"

\* refetchInterval: false, no timer.
NoPoll == 0

JobStatus == {"pending", "running", "completed", "failed"}

\* The page is not mounted yet and the job has just been created.
PollIdle ==
    /\ jobData = NoData
    /\ jobFetch = "unmounted"
    /\ pollTimer = NoPoll
    /\ pollDue = FALSE
    /\ polls = 0
    /\ serverStatus = "pending"

\* The instance is not in the tree yet: the initial values of useState.
ImageUnmounted ==
    /\ mounted = FALSE
    /\ src = "s1"
    /\ blobUrl = NoUrl
    /\ isLoading = TRUE
    /\ hasError = FALSE
    /\ updates = NoUpdates
    /\ effects = <<>>
    /\ created = 0
    /\ revoked = <<>>

\* ------------------------------------------------------------ token store
getAccessToken(ls) == ls.access_token

getRefreshToken(ls) == ls.refresh_token

\* Mutant of setTokens: the two values are stored under each other's key.
setTokens_Swapped(accessToken, refreshToken) ==
    [access_token |-> refreshToken, refresh_token |-> accessToken]

\* api.ts:30-33
setTokens(accessToken, refreshToken) ==
    [access_token |-> accessToken, refresh_token |-> refreshToken]

clearTokens == [access_token |-> None, refresh_token |-> None]

\* localStorage.setItem(TOKEN_KEY, access_token)
setAccessItem(ls, accessToken) == [ls EXCEPT !.access_token = accessToken]

\* ------------------------------------------------------------ interceptors
\* Mutant of RequestInterceptor: the config goes out as it came.
RequestInterceptor_Skipped(ls, h) == h

\* The request interceptor, api.ts:49-55: the header becomes the stored access
\* token when there is one, and otherwise stays what the config carried.  It
\* does not look at the url.
RequestInterceptor(ls, h) ==
    IF getAccessToken(ls) # None THEN getAccessToken(ls) ELSE h

\* Mutant of IncludesAuth: the guard on the url is missing.
IncludesAuth_Never(u) == FALSE

\* originalRequest.url?.includes('/auth/'): some segment that is followed by
\* another one is exactly "auth".
IncludesAuth(u) == \E i \in 1..(Len(u) - 1) : u[i] = "auth"

\* The guard of the refresh protocol, api.ts:75.
StartsProtocol(status, u) == status = Unauthorized /\ ~IncludesAuth(u)

Range(s) == {s[i] : i \in 1..Len(s)}

\* Mutant of subscribeTokenRefresh: the callback is not kept.
subscribeTokenRefresh_Dropped(subs, r) == subs

\* api.ts:61-63, refreshSubscribers.push(cb)
subscribeTokenRefresh(subs, r) == Append(subs, r)

\* Mutant of RefreshCallHeader: the refresh call goes through the client.
RefreshCallHeader_ViaClient(ls) == RequestInterceptor(ls, None)

\* api.ts:129, authApi.refresh posts through plain axios, which has no request
\* interceptor: the call carries no Authorization header.
RefreshCallHeader(ls) == None

\* Mutant of authApiLogout: the store is cleared in a finally.
authApiLogout_Finally(resolved, ls) == clearTokens

\* api.ts:133-137, the store as authApi.logout leaves it when its post has
\* settled: clearTokens() follows the await, so it runs only when the post
\* resolved; when the post rejected, logout rejects where it awaits.
authApiLogout(resolved, ls) == IF resolved THEN clearTokens ELSE ls

\* Mutant of ContextLogout: logout relies on authApi.logout for the store.
ContextLogout_NoClear(ls) == ls

\* AuthContext.tsx:52-60, the store as AuthContext.logout leaves it: the
\* catch ignores the error of authApi.logout, and clearTokens() follows.
ContextLogout(ls) == clearTokens

\* Mutant of StoreAfterReject: every rejection clears the store.
StoreAfterReject_Always(r, ls) == clearTokens

\* What the caller of request r does with the store when the call rejects:
\* fetchUser and logout clear the tokens in their catch, the others do nothing.
StoreAfterReject(r, ls) ==
    IF r = MeReq THEN clearTokens
    ELSE IF r = LogoutReq THEN ContextLogout(authApiLogout(FALSE, ls))
    ELSE ls

\* Mutant of UserAfterReject: every rejection resets the user.
UserAfterReject_Always(r, u) == NoUser

UserAfterReject(r, u) == IF r \in {MeReq, LogoutReq} THEN NoUser ELSE u

\* The task that ran last: its name, its request, the token or the error status
\* it delivered, the requests it replayed or left waiting, and the replays in
\* the order of their dispatch.
Replayed(op, r, x, rs, order) ==
    [op |-> op, r |-> r, x |-> x, rs |-> rs, order |-> order]

Event(op, r, x, rs) == Replayed(op, r, x, rs, <<>>)

\* ------------------------------------------------------------------- Init
Init ==
    /\ localStorage \in {clearTokens} \cup
                        {setTokens(a, rt) : a \in AccessTokens, rt \in RefreshTokens}
    /\ isRefreshing = FALSE
    /\ refreshSubscribers = <<>>
    /\ refreshWire = {}
    /\ st = [r \in Req |-> "idle"]
    /\ url = [r \in Req |-> <<>>]
    /\ hdr = [r \in Req |-> None]
    /\ user = NoUser
    /\ redirects = 0
    /\ refreshIssued = 0
    /\ orphaned = {}
    /\ last = Event("init", LoginReq, None, {})
    /\ StoreIdle
    /\ ImageUnmounted
    /\ StartupIdle
    /\ PollIdle

\* ---------------------------------------------------------------- dispatch
\* api(config): the request interceptor decorates the config and the request
\* goes on the wire.  carried is the Authorization value the config has already.
SentSt(s, rs) == [r \in Req |-> IF r \in rs THEN "sent" ELSE s[r]]

SentHdr(h, rs, ls, carried) ==
    [r \in Req |-> IF r \in rs THEN RequestInterceptor(ls, carried) ELSE h[r]]

\* A request that left the wire has no header any more.
Landed(h, r) == [h EXCEPT ![r] = None]

\* ------------------------------------------------------- calls of the UI
\* A page makes a protected call; <<"app", i>> is the i-th such call.
Call(r, u) ==
    /\ r \in AppReq /\ st[r] = "idle"
    /\ \A q \in AppReq : q[2] < r[2] => st[q] # "idle"
    /\ st' = SentSt(st, {r})
    /\ url' = [url EXCEPT ![r] = u]
    /\ hdr' = SentHdr(hdr, {r}, localStorage, None)
    /\ last' = Event("call", r, None, {})
    /\ UNCHANGED <<localStorage, isRefreshing, refreshSubscribers, refreshWire,
                   user, redirects, refreshIssued, orphaned>>

\* AuthContext.login up to its first await: authApi.login posts /auth/login.
\* The current-user call that follows a successful login is reserved here.
Login ==
    /\ st[LoginReq] = "idle" /\ st[MeReq] = "idle"
    /\ st' = [SentSt(st, {LoginReq}) EXCEPT ![MeReq] = "reserved"]
    /\ url' = [url EXCEPT ![LoginReq] = UrlLogin]
    /\ hdr' = SentHdr(hdr, {LoginReq}, localStorage, None)
    /\ last' = Event("login", LoginReq, None, {})
    /\ UNCHANGED <<localStorage, isRefreshing, refreshSubscribers, refreshWire,
                   user, redirects, refreshIssued, orphaned>>

\* AuthContext.register: authApi.register posts /auth/register.
Register ==
    /\ st[LoginReq] = "idle"
    /\ st' = SentSt(st, {LoginReq})
    /\ url' = [url EXCEPT ![LoginReq] = UrlRegister]
    /\ hdr' = SentHdr(hdr, {LoginReq}, localStorage, None)
    /\ last' = Event("register", LoginReq, None, {})
    /\ UNCHANGED <<localStorage, isRefreshing, refreshSubscribers, refreshWire,
                   user, redirects, refreshIssued, orphaned>>

\* AuthContext.refreshUser / initAuth: fetchUser up to its await of userApi.me.
RefreshUser ==
    /\ st[MeReq] = "idle"
    /\ st' = SentSt(st, {MeReq})
    /\ url' = [url EXCEPT ![MeReq] = UrlMe]
    /\ hdr' = SentHdr(hdr, {MeReq}, localStorage, None)
    /\ last' = Event("fetchUser", MeReq, None, {})
    /\ UNCHANGED <<localStorage, isRefreshing, refreshSubscribers, refreshWire,
                   user, redirects, refreshIssued, orphaned>>

\* AuthContext.logout up to its await: authApi.logout posts /auth/logout.
Logout ==
    /\ st[LogoutReq] = "idle"
    /\ st' = SentSt(st, {LogoutReq})
    /\ url' = [url EXCEPT ![LogoutReq] = UrlLogout]
    /\ hdr' = SentHdr(hdr, {LogoutReq}, localStorage, None)
    /\ last' = Event("logout", LogoutReq, None, {})
    /\ UNCHANGED <<localStorage, isRefreshing, refreshSubscribers, refreshWire,
                   user, redirects, refreshIssued, orphaned>>

\* ------------------------------------------------------ successful response
\* Mutant of StoreAtFetchUser: fetchUser is called before setTokens.
StoreAtFetchUser_BeforeSetTokens(before, after) == before

\* AuthContext.tsx:44-45, setTokens(...) precedes await fetchUser(): the
\* current-user call is decorated from the store that setTokens has left.
StoreAtFetchUser(before, after) == after

\* The response interceptor passes a 2xx response through; the caller goes on.
\* login: setTokens, then fetchUser calls userApi.me.
LoginResponseOk(a, rt) ==
    /\ st[LoginReq] = "sent" /\ url[LoginReq] = UrlLogin
    /\ localStorage' = setTokens(a, rt)
    /\ st' = [SentSt(st, {MeReq}) EXCEPT ![LoginReq] = "resolved"]
    /\ url' = [url EXCEPT ![MeReq] = UrlMe]
    /\ hdr' = SentHdr(Landed(hdr, LoginReq), {MeReq},
                    StoreAtFetchUser(localStorage, localStorage'), None)
    /\ last' = Event("loginOk", LoginReq, a, {})
    /\ UNCHANGED <<isRefreshing, refreshSubscribers, refreshWire, user,
                   redirects, refreshIssued, orphaned>>

\* fetchUser: setUser(userData).  logout: clearTokens, setUser(null).
ResponseOk(r) ==
    /\ st[r] = "sent" /\ url[r] # UrlLogin
    /\ st' = [st EXCEPT ![r] = "resolved"]
    /\ hdr' = Landed(hdr, r)
    /\ localStorage' = IF r = LogoutReq
                       THEN ContextLogout(authApiLogout(TRUE, localStorage))
                       ELSE localStorage
    /\ user' = IF r = MeReq THEN SomeUser
               ELSE IF r = LogoutReq THEN NoUser ELSE user
    /\ last' = Event("ok", r, None, {})
    /\ UNCHANGED <<isRefreshing, refreshSubscribers, refreshWire, url,
                   redirects, refreshIssued, orphaned>>

\* ----------------------------------------------------------- failed response
\* Rejection of request r to its caller, followed by what the caller does in
\* its catch.  ls is the store the interceptor leaves.  A rejected login never
\* reaches its fetchUser.
Reject(r, ls) ==
    /\ st' = [st EXCEPT ![r] = "rejected",
                        ![MeReq] = IF url[r] = UrlLogin THEN "idle" ELSE @]
    /\ localStorage' = StoreAfterReject(r, ls)
    /\ user' = UserAfterReject(r, user)

\* api.ts:112, the error is not a 401 of a protected call: pass it through.
PassThrough(r, s) ==
    /\ st[r] = "sent"
    /\ ~StartsProtocol(s, url[r])
    /\ Reject(r, localStorage)
    /\ hdr' = Landed(hdr, r)
    /\ last' = Event("passThrough", r, s, {})
    /\ UNCHANGED <<isRefreshing, refreshSubscribers, refreshWire, url,
                   redirects, refreshIssued, orphaned>>

\* Mutant of Absent: the handler does not test the refresh token.
Absent_Never(token) == FALSE

\* api.ts:78, if (!refreshToken)
Absent(token) == token = None

\* api.ts:78-82, a 401 of a protected call and no refresh token is stored.
NoRefreshToken(r) ==
    /\ st[r] = "sent"
    /\ StartsProtocol(Unauthorized, url[r])
    /\ Absent(getRefreshToken(localStorage))
    /\ Reject(r, clearTokens)
    /\ hdr' = Landed(hdr, r)
    /\ redirects' = redirects + 1
    /\ last' = Event("noRefreshToken", r, Unauthorized, {})
    /\ UNCHANGED <<isRefreshing, refreshSubscribers, refreshWire, url,
                   refreshIssued, orphaned>>

\* Mutant of MayRefresh: the handler does not look at the flag.
MayRefresh_Always(flag) == TRUE

\* api.ts:84, if (!isRefreshing)
MayRefresh(flag) == ~flag

\* api.ts:84-88, a 401 of a protected call, a refresh token is stored and no
\* refresh is running: set the flag and post the refresh token to /auth/refresh
\* through plain axios.
StartRefresh(r) ==
    /\ st[r] = "sent" /\ refreshIssued < MaxRefresh
    /\ StartsProtocol(Unauthorized, url[r])
    /\ ~Absent(getRefreshToken(localStorage))
    /\ MayRefresh(isRefreshing)
    /\ isRefreshing' = TRUE
    /\ refreshWire' = refreshWire \cup {r}
    /\ refreshIssued' = refreshIssued + 1
    /\ st' = [st EXCEPT ![r] = "refreshing"]
    /\ hdr' = [hdr EXCEPT ![r] = RefreshCallHeader(localStorage)]
    /\ last' = Event("startRefresh", r, Unauthorized, {})
    /\ UNCHANGED <<localStorage, refreshSubscribers, url, user, redirects,
                   orphaned>>

\* api.ts:104-109, a 401 of a protected call while a refresh is running: the
\* handler returns a promise that only the subscribed callback resolves.
Enqueue(r) ==
    /\ st[r] = "sent"
    /\ StartsProtocol(Unauthorized, url[r])
    /\ ~Absent(getRefreshToken(localStorage))
    /\ ~MayRefresh(isRefreshing)
    /\ refreshSubscribers' = subscribeTokenRefresh(refreshSubscribers, r)
    /\ st' = [st EXCEPT ![r] = "queued"]
    /\ hdr' = Landed(hdr, r)
    /\ last' = Event("enqueue", r, Unauthorized, {})
    /\ UNCHANGED <<localStorage, isRefreshing, refreshWire, url, user,
                   redirects, refreshIssued, orphaned>>

\* ------------------------------------------------------------ refresh settles
\* Mutant of StoreAfterRefresh: the pair is overwritten as by setTokens, with
\* the refresh token the response does not carry.
StoreAfterRefresh_Pair(ls, tok) == setTokens(tok, None)

\* api.ts:90, localStorage.setItem(TOKEN_KEY, access_token)
StoreAfterRefresh(ls, tok) == setAccessItem(ls, tok)

\* Mutant of Flushed: the callbacks of the list are dropped without a call.
Flushed_None(subs) == {}

\* api.ts:65-68 onTokenRefreshed: every callback of the list runs, and the
\* list is replaced by an empty one.
Flushed(subs) == Range(subs)

\* Mutant of SubscribersAfterFlush: the list is not replaced.
SubscribersAfterFlush_Kept(subs) == subs

SubscribersAfterFlush(subs) == <<>>

\* api.ts:96-101: the catch resets the flag, clears the store and redirects; it
\* does not touch refreshSubscribers.
SubscribersAfterFailure(subs) == subs

\* Mutant of RedirectsAfterFailure: one redirect more per waiting request.
RedirectsAfterFailure_PerWaiter(n, subs) == n + 1 + Len(subs)

\* api.ts:99, window.location.href = '/login' runs once in the catch, whatever
\* the length of the waiting list.
RedirectsAfterFailure(n, subs) == n + 1

\* Mutant of DispatchOrder: the request that started the refresh goes first.
DispatchOrder_InitiatorFirst(subs, c) == <<c>> \o subs

\* api.ts:92-95: onTokenRefreshed calls the callbacks with forEach, in the
\* order of the list, and each callback calls api(originalRequest); then the
\* handler returns api(originalRequest) for the request that started the
\* refresh.
DispatchOrder(subs, c) == Append(subs, c)

\* Mutant of StoreSeenByReplay: the replays start before the token is stored.
StoreSeenByReplay_Stale(ls, tok) == ls

\* The store the replays of a successful refresh see: api.ts:90 runs before
\* onTokenRefreshed (api.ts:92) and before api(originalRequest) (api.ts:95).
StoreSeenByReplay(ls, tok) == StoreAfterRefresh(ls, tok)

\* api.ts:88-95, the refresh call of request c resolves with access_token tok.
RefreshOk(c, tok) ==
    /\ c \in refreshWire
    /\ refreshWire' = refreshWire \ {c}
    /\ localStorage' = StoreAfterRefresh(localStorage, tok)
    /\ isRefreshing' = FALSE
    /\ LET rs == Flushed(refreshSubscribers) \cup {c} IN
         /\ st' = SentSt(st, rs)
         /\ hdr' = SentHdr(hdr, rs, StoreSeenByReplay(localStorage, tok), tok)
         /\ last' = Replayed("refreshOk", c, tok, rs,
                              SelectSeq(DispatchOrder(refreshSubscribers, c),
                                        LAMBDA r : r \in rs))
    /\ refreshSubscribers' = SubscribersAfterFlush(refreshSubscribers)
    /\ UNCHANGED <<url, user, redirects, refreshIssued, orphaned>>

\* api.ts:96-101, the refresh call of request c rejects: c is rejected with the
\* 401 error its handler was called with.
RefreshFail(c) ==
    /\ c \in refreshWire
    /\ refreshWire' = refreshWire \ {c}
    /\ isRefreshing' = FALSE
    /\ Reject(c, clearTokens)
    /\ redirects' = RedirectsAfterFailure(redirects, refreshSubscribers)
    /\ refreshSubscribers' = SubscribersAfterFailure(refreshSubscribers)
    /\ orphaned' = orphaned \cup Range(refreshSubscribers)
    /\ last' = Event("refreshFail", c, Unauthorized, Range(refreshSubscribers))
    /\ UNCHANGED <<url, hdr, refreshIssued>>

\* ------------------------------------------------------------------- Next
Next ==
    \/ \E r \in AppReq, u \in AppUrls : Call(r, u) /\ UNCHANGED pageVars
    \/ Login /\ UNCHANGED pageVars
    \/ Register /\ UNCHANGED pageVars
    \/ RefreshUser /\ UNCHANGED pageVars
    \/ Logout /\ UNCHANGED pageVars
    \/ \E a \in AccessTokens, rt \in RefreshTokens : LoginResponseOk(a, rt) /\ UNCHANGED pageVars
    \/ \E r \in Req : ResponseOk(r) /\ UNCHANGED pageVars
    \/ \E r \in Req, s \in ErrorStatus : PassThrough(r, s) /\ UNCHANGED pageVars
    \/ \E r \in Req : NoRefreshToken(r) /\ UNCHANGED pageVars
    \/ \E r \in Req : StartRefresh(r) /\ UNCHANGED pageVars
    \/ \E r \in Req : Enqueue(r) /\ UNCHANGED pageVars
    \/ \E c \in refreshWire, tok \in AccessTokens : RefreshOk(c, tok) /\ UNCHANGED pageVars
    \/ \E c \in refreshWire : RefreshFail(c) /\ UNCHANGED pageVars

Spec == Init /\ [][Next]_allVars

\* The authentication endpoints that are called through the client.
AuthEndpoints == {UrlLogin, UrlRegister, UrlLogout}

Protected(r) == url[r] \notin AuthEndpoints

\* ------------------------------------------------------------------ storm
\* The scenario of a storm of 401s: the session starts with a stored pair
\* whose access token A1 the server has expired, the server accepts only the
\* token the refresh endpoint hands out for the protected calls, nobody logs in
\* or out (the form may register an account, which needs no token), and no
\* call fails otherwise.
ExpiredToken == "A1"
FreshToken == "A2"

StormInit ==
    /\ Init
    /\ getAccessToken(localStorage) = ExpiredToken
    /\ getRefreshToken(localStorage) \in RefreshTokens

StormNext ==
    \/ \E r \in AppReq, u \in AppUrls : Call(r, u) /\ UNCHANGED pageVars
    \/ RefreshUser /\ UNCHANGED pageVars
    \/ Register /\ UNCHANGED pageVars
    \/ url[LoginReq] = UrlRegister /\ ResponseOk(LoginReq) /\ UNCHANGED pageVars
    \/ \E r \in Req : hdr[r] # FreshToken /\ NoRefreshToken(r) /\ UNCHANGED pageVars
    \/ \E r \in Req : hdr[r] # FreshToken /\ StartRefresh(r) /\ UNCHANGED pageVars
    \/ \E r \in Req : hdr[r] # FreshToken /\ Enqueue(r) /\ UNCHANGED pageVars
    \/ \E r \in Req : Protected(r) /\ hdr[r] = FreshToken /\ ResponseOk(r) /\ UNCHANGED pageVars
    \/ \E c \in refreshWire : RefreshOk(c, FreshToken) /\ UNCHANGED pageVars
    \/ \E c \in refreshWire : RefreshFail(c) /\ UNCHANGED pageVars

StormSpec == StormInit /\ [][StormNext]_allVars

TypeOK ==
    /\ localStorage \in [access_token : AccessTokens \cup {None},
                         refresh_token : RefreshTokens \cup {None}]
    /\ isRefreshing \in BOOLEAN
    /\ Range(refreshSubscribers) \subseteq Req
    /\ \A r \in Req : st[r] \in {"idle", "reserved", "sent", "refreshing",
                                 "queued", "resolved", "rejected"}
    /\ refreshIssued \in 0..MaxRefresh
    /\ \A r \in Req : hdr[r] \in AccessTokens \cup {None}
    /\ user \in {NoUser, SomeUser}

\* ------------------------------------------------------------ vocabulary
\* The step delivers a 401 response to request r, which was on the wire.
Got401(r) == st[r] = "sent" /\ last'.r = r /\ last'.x = Unauthorized

\* Nothing is on the wire: every network call that was made has settled.
Quiescent == refreshWire = {} /\ \A r \in Req : st[r] # "sent"

Pending(r) == st[r] \in {"refreshing", "queued"}

Settled(r) == st[r] \in {"resolved", "rejected"}

\* The step puts request r on the wire: a first dispatch, or a replay.
Dispatched(r) == st[r] # "sent" /\ st'[r] = "sent"

\* The step dispatches the refresh call of request r.
RefreshDispatched(r) == st[r] # "refreshing" /\ st'[r] = "refreshing"

\* The step delivers to request r, which was on the wire, a failure that is
\* not a 401.
GotOtherError(r) == st[r] = "sent" /\ last'.r = r /\ last'.x = OtherError

\* The step delivers the outcome of the server's logout call.
LogoutSettles == st[LogoutReq] = "sent" /\ Settled(LogoutReq)'

\* ------------------------------------------------------------ token store
\* The four functions of api.ts:27-38 and the setItem of api.ts:90, called in
\* any order on any store the session can have left.
clientVars == <<isRefreshing, refreshSubscribers, refreshWire, st, url, hdr,
                user, redirects, refreshIssued, orphaned, last>>

\* A read: the function and the value it returned.
Read(fn, value) == [fn |-> fn, value |-> value]

\* api.ts:30-33
SetTokens(a, b) ==
    /\ localStorage' = setTokens(a, b)
    /\ written' = Write("setTokens", a, b)
    /\ reads' = <<>>
    /\ UNCHANGED <<clientVars, imageVars, appVars>>

\* api.ts:35-38
ClearTokens ==
    /\ localStorage' = clearTokens
    /\ written' = Write("clearTokens", None, None)
    /\ reads' = <<>>
    /\ UNCHANGED <<clientVars, imageVars, appVars>>

\* api.ts:90, the refresh handler writes the access token alone.
SetAccessItem(a) ==
    /\ localStorage' = setAccessItem(localStorage, a)
    /\ written' = Write("setItem", a, getRefreshToken(localStorage))
    /\ reads' = <<>>
    /\ UNCHANGED <<clientVars, imageVars, appVars>>

\* api.ts:27, localStorage.getItem(TOKEN_KEY) writes nothing.
GetAccessToken ==
    /\ Len(reads) < MaxReads
    /\ reads' = Append(reads, Read("getAccessToken", getAccessToken(localStorage)))
    /\ UNCHANGED <<localStorage, written, clientVars, imageVars, appVars>>

\* api.ts:28, localStorage.getItem(REFRESH_TOKEN_KEY) writes nothing.
GetRefreshToken ==
    /\ Len(reads) < MaxReads
    /\ reads' = Append(reads, Read("getRefreshToken", getRefreshToken(localStorage)))
    /\ UNCHANGED <<localStorage, written, clientVars, imageVars, appVars>>

StoreNext ==
    \/ \E a \in AccessTokens, b \in RefreshTokens : SetTokens(a, b)
    \/ ClearTokens
    \/ \E a \in AccessTokens : SetAccessItem(a)
    \/ GetAccessToken
    \/ GetRefreshToken

StoreSpec == Init /\ [][StoreNext]_allVars

\* ------------------------------------------------------ AuthenticatedImage
\* Every action is one task of the page: a render of the instance with the
\* effects it runs (cleanups of the effects whose dependencies changed, then
\* their bodies), or the completion of one api.get.  A set-state call only
\* takes effect at the next render.

\* One run of the fetch effect (types/api.ts:155-191): its closure variables
\* isMounted and objectUrl, and the state of its api.get.
Effect(flag, u, f) == [isMounted |-> flag, objectUrl |-> u, fetch |-> f]

\* The run of the fetch effect that belongs to the last render.
Current == effects[Len(effects)]

\* The value of a state variable after the set-state calls made on it.
Applied(set, current) == IF set = {} THEN current ELSE CHOOSE v \in set : TRUE

\* if (u) { URL.revokeObjectURL(u) }, types/api.ts:187-189 and 196-198.
Revoke(rv, u) == IF u = NoUrl THEN rv ELSE [rv EXCEPT ![u] = @ + 1]

\* Mutant of StartedUpdates: fetchImage does not reset the state.
StartedUpdates_Silent(upd) == upd

\* types/api.ts:160-161, fetchImage up to its await: setIsLoading(true),
\* setHasError(false).
StartedUpdates(upd) == [upd EXCEPT !.isLoading = {TRUE}, !.hasError = {FALSE}]

\* types/api.ts:186, the cleanup of the fetch effect: isMounted = false in the
\* closure of the current run.
CleanedUp(es) ==
    [i \in DOMAIN es |->
        IF i = Len(es) THEN Effect(FALSE, es[i].objectUrl, es[i].fetch) ELSE es[i]]

\* Mutant of StillMounted: the completion does not look at isMounted.
StillMounted_Always(flag) == TRUE

\* types/api.ts:168 and 175, if (!isMounted) return
StillMounted(flag) == flag

\* The cleanup of the blobUrl effect (types/api.ts:194-200) runs in a render
\* that changes blobUrl, on the value of the render before.
RevokedByRender(rv, old, new) == IF new # old THEN Revoke(rv, old) ELSE rv

\* The instance enters the tree: first render with the initial state, then the
\* fetch effect runs.
Mount(s) ==
    /\ ~mounted /\ effects = <<>>
    /\ mounted' = TRUE
    /\ src' = s
    /\ effects' = <<Effect(TRUE, NoUrl, "pending")>>
    /\ updates' = StartedUpdates(updates)
    /\ UNCHANGED <<blobUrl, isLoading, hasError, created, revoked>>

\* A render that applies the set-state calls made since the last one; the
\* blobUrl effect is cleaned up when blobUrl changed.
Render ==
    /\ mounted /\ updates # NoUpdates
    /\ blobUrl' = Applied(updates.blobUrl, blobUrl)
    /\ isLoading' = Applied(updates.isLoading, isLoading)
    /\ hasError' = Applied(updates.hasError, hasError)
    /\ revoked' = RevokedByRender(revoked, blobUrl, blobUrl')
    /\ updates' = NoUpdates
    /\ UNCHANGED <<mounted, src, effects, created>>

\* The parent renders the instance with another src: the render applies the
\* set-state calls made so far, then the fetch effect is cleaned up
\* (types/api.ts:185-190) and run again for the new src.
ChangeSrc(s) ==
    /\ mounted /\ s # src /\ Len(effects) <= MaxSrcChanges
    /\ src' = s
    /\ blobUrl' = Applied(updates.blobUrl, blobUrl)
    /\ isLoading' = Applied(updates.isLoading, isLoading)
    /\ hasError' = Applied(updates.hasError, hasError)
    /\ revoked' = RevokedByRender(Revoke(revoked, Current.objectUrl),
                                  blobUrl, blobUrl')
    /\ effects' = Append(CleanedUp(effects), Effect(TRUE, NoUrl, "pending"))
    /\ updates' = StartedUpdates(NoUpdates)
    /\ UNCHANGED <<mounted, created>>

\* The instance leaves the tree: both cleanups run, the fetch effect's on
\* objectUrl and the blobUrl effect's on the blobUrl of the last render.
Unmount ==
    /\ mounted
    /\ mounted' = FALSE
    /\ effects' = CleanedUp(effects)
    /\ revoked' = Revoke(Revoke(revoked, Current.objectUrl), blobUrl)
    /\ updates' = NoUpdates
    /\ UNCHANGED <<src, blobUrl, isLoading, hasError, created>>

\* types/api.ts:164-173, the api.get of run i resolves.
FetchOk(i) ==
    /\ i \in DOMAIN effects /\ effects[i].fetch = "pending"
    /\ IF StillMounted(effects[i].isMounted)
       THEN /\ created' = created + 1
            /\ revoked' = Append(revoked, 0)
            /\ effects' = [effects EXCEPT ![i] =
                              Effect(@.isMounted, created + 1, "resolved")]
            /\ updates' = [updates EXCEPT !.blobUrl = {created + 1},
                                          !.isLoading = {FALSE}]
       ELSE /\ effects' = [effects EXCEPT ![i].fetch = "resolved"]
            /\ UNCHANGED <<created, revoked, updates>>
    /\ UNCHANGED <<mounted, src, blobUrl, isLoading, hasError>>

\* types/api.ts:174-180, the api.get of run i rejects.
FetchFail(i) ==
    /\ i \in DOMAIN effects /\ effects[i].fetch = "pending"
    /\ effects' = [effects EXCEPT ![i].fetch = "rejected"]
    /\ updates' = IF StillMounted(effects[i].isMounted)
                  THEN [updates EXCEPT !.hasError = {TRUE}, !.isLoading = {FALSE}]
                  ELSE updates
    /\ UNCHANGED <<mounted, src, blobUrl, isLoading, hasError, created, revoked>>

ImageInit == Init /\ localStorage = clearTokens

ImageNext ==
    \/ \E s \in Sources : Mount(s) /\ UNCHANGED sessionVars
    \/ Render /\ UNCHANGED sessionVars
    \/ \E s \in Sources : ChangeSrc(s) /\ UNCHANGED sessionVars
    \/ Unmount /\ UNCHANGED sessionVars
    \/ \E i \in 1..(MaxSrcChanges + 1) : FetchOk(i) /\ UNCHANGED sessionVars
    \/ \E i \in 1..(MaxSrcChanges + 1) : FetchFail(i) /\ UNCHANGED sessionVars

ImageSpec == ImageInit /\ [][ImageNext]_allVars

\* The object URLs that were created and not revoked.
LiveUrls == {u \in 1..created : revoked[u] = 0}

\* The state the set-state calls made so far have put the instance in, as
\* the component renders it (types/api.ts:202-225).
Phase ==
    IF Applied(updates.isLoading, isLoading) THEN "Loading"
    ELSE IF Applied(updates.hasError, hasError) THEN "Errored"
    ELSE "Loaded"

\* The render shows <img src={blobUrl}>, types/api.ts:202-225.
ShowsImage == mounted /\ ~isLoading /\ ~hasError /\ blobUrl # NoUrl

\* The step delivers the result of the api.get of run i after its cleanup.
StaleCompletion(i) ==
    /\ i \in DOMAIN effects /\ effects[i].fetch = "pending"
    /\ effects'[i].fetch # "pending"
    /\ ~effects[i].isMounted

\* ------------------------------------------------------- a page with media
\* A page that shows one AuthenticatedImage while it makes protected calls of
\* its own and the session controller fetches the current user.  The image
\* fetches through the client (types/api.ts:164), so the completion of its
\* api.get is the task that delivers the client's outcome for MediaReq.

\* types/api.ts:164, api.get(src, {responseType: 'blob'}) of the first run of
\* the fetch effect.
MediaGet ==
    /\ st[MediaReq] = "idle"
    /\ st' = SentSt(st, {MediaReq})
    /\ url' = [url EXCEPT ![MediaReq] = UrlScreenshot]
    /\ hdr' = SentHdr(hdr, {MediaReq}, localStorage, None)
    /\ last' = Event("call", MediaReq, None, {})
    /\ UNCHANGED <<localStorage, isRefreshing, refreshSubscribers, refreshWire,
                   user, redirects, refreshIssued, orphaned>>

\* The client settles request r in this task: when r is the api.get of the
\* image, fetchImage goes on after its await (types/api.ts:168-180).
Delivered(r, resolved) ==
    /\ UNCHANGED <<written, reads, appVars>>
    /\ IF r = MediaReq
       THEN IF resolved THEN FetchOk(1) ELSE FetchFail(1)
       ELSE UNCHANGED imageVars

MediaNext ==
    \/ \E r \in AppReq, u \in AppUrls : Call(r, u) /\ UNCHANGED pageVars
    \/ RefreshUser /\ UNCHANGED pageVars
    \/ \E s \in Sources : Mount(s) /\ MediaGet /\ UNCHANGED <<written, reads, appVars>>
    \/ Render /\ UNCHANGED sessionVars
    \/ Unmount /\ UNCHANGED sessionVars
    \/ \E r \in Req : ResponseOk(r) /\ Delivered(r, TRUE)
    \/ \E r \in Req, s \in ErrorStatus : PassThrough(r, s) /\ Delivered(r, FALSE)
    \/ \E r \in Req : NoRefreshToken(r) /\ Delivered(r, FALSE)
    \/ \E r \in Req : StartRefresh(r) /\ UNCHANGED pageVars
    \/ \E r \in Req : Enqueue(r) /\ UNCHANGED pageVars
    \/ \E c \in refreshWire, tok \in AccessTokens :
          RefreshOk(c, tok) /\ UNCHANGED pageVars
    \/ \E c \in refreshWire : RefreshFail(c) /\ Delivered(c, FALSE)

MediaSpec == Init /\ [][MediaNext]_allVars

\* The step delivers the failure of the image's api.get to fetchImage.
MediaFetchFails ==
    /\ effects # <<>> /\ effects[1].fetch = "pending"
    /\ effects'[1].fetch = "rejected"

\* ------------------------------------------------------- start of the session
\* Mutant of HasToken: initAuth does not look at the token.
HasToken_Always(token) == TRUE

\* AuthContext.tsx:34, if (token)
HasToken(token) == token # None

\* AuthContext.tsx:71, isAuthenticated: !!user
isAuthenticated == user # NoUser

\* AuthContext.tsx:31-40, the effect of the provider runs initAuth up to its
\* await: with a stored access token fetchUser sends the current-user call,
\* without one setIsLoading(false) follows at once.
InitAuth ==
    /\ initAuth = "notRun"
    /\ IF HasToken(getAccessToken(localStorage))
       THEN /\ RefreshUser
            /\ initAuth' = "awaiting"
            /\ UNCHANGED sessionIsLoading
       ELSE /\ initAuth' = "done"
            /\ sessionIsLoading' = FALSE
            /\ last' = Event("initAuth", MeReq, None, {})
            /\ UNCHANGED <<localStorage, isRefreshing, refreshSubscribers,
                           refreshWire, st, url, hdr, user, redirects,
                           refreshIssued, orphaned>>

\* The step settles the current-user call that initAuth waits for.
InitAuthFetchSettles == initAuth = "awaiting" /\ ~Settled(MeReq) /\ Settled(MeReq)'

\* AuthContext.tsx:35-37, initAuth after await fetchUser(): setIsLoading(false)
\* runs in the task that settles the current-user call.
Resumes ==
    IF InitAuthFetchSettles
    THEN sessionIsLoading' = FALSE /\ initAuth' = "done"
    ELSE UNCHANGED startupVars

\* A task of the session after the effect of the provider has run.
Running ==
    /\ initAuth # "notRun"
    /\ Resumes
    /\ UNCHANGED <<written, reads, imageVars, pollVars>>

\* The pages under the provider make their first calls in the commit in which
\* the effect of the provider runs; every response and every action of the
\* user comes later.
StartupNext ==
    \/ InitAuth /\ UNCHANGED <<written, reads, imageVars, pollVars>>
    \/ \E r \in AppReq, u \in AppUrls :
          Call(r, u) /\ UNCHANGED pageVars
    \/ Login /\ Running
    \/ Logout /\ Running
    \/ \E a \in AccessTokens, rt \in RefreshTokens : LoginResponseOk(a, rt) /\ Running
    \/ \E r \in Req : ResponseOk(r) /\ Running
    \/ \E r \in Req, e \in ErrorStatus : PassThrough(r, e) /\ Running
    \/ \E r \in Req : NoRefreshToken(r) /\ Running
    \/ \E r \in Req : StartRefresh(r) /\ Running
    \/ \E r \in Req : Enqueue(r) /\ Running
    \/ \E c \in refreshWire, tok \in AccessTokens : RefreshOk(c, tok) /\ Running
    \/ \E c \in refreshWire : RefreshFail(c) /\ Running

StartupSpec == Init /\ [][StartupNext]_allVars

\* --------------------------------------------------------- job-details page
\* The delay of the poll in milliseconds.
PollInterval == 2000

\* Mutant of refetchInterval: only a pending job is polled.
refetchInterval_PendingOnly(data) ==
    IF data = "pending" THEN PollInterval ELSE NoPoll

\* JobDetails.tsx:50-53, data?.status === 'pending' || data?.status ===
\* 'running' ? 2000 : false
refetchInterval(data) ==
    IF data = "pending" \/ data = "running" THEN PollInterval ELSE NoPoll

\* The query arms its refetch timer anew with the delay that refetchInterval
\* gives for the data it holds.
Armed(data) ==
    /\ pollTimer' = refetchInterval(data)
    /\ pollDue' = FALSE

\* JobDetails.tsx:46-49, the page mounts with an id: the query is enabled and
\* fetches the job; it holds no data yet.
MountJob ==
    /\ jobFetch = "unmounted"
    /\ jobFetch' = "fetching"
    /\ Armed(jobData)
    /\ UNCHANGED <<jobData, polls, serverStatus>>

\* The automation service moves the job on.
ServerAdvance ==
    /\ \/ serverStatus = "pending" /\ serverStatus' = "running"
       \/ serverStatus = "running" /\ serverStatus' \in {"completed", "failed"}
    /\ UNCHANGED <<jobData, jobFetch, pollTimer, pollDue, polls>>

\* jobsApi.get resolves: the query holds the job as the server has it.
JobFetchOk ==
    /\ jobFetch = "fetching"
    /\ jobFetch' = "idle"
    /\ jobData' = serverStatus
    /\ Armed(jobData')
    /\ UNCHANGED <<polls, serverStatus>>

\* jobsApi.get rejects: the query keeps the data it has.
JobFetchFail ==
    /\ jobFetch = "fetching"
    /\ jobFetch' = "idle"
    /\ Armed(jobData)
    /\ UNCHANGED <<jobData, polls, serverStatus>>

\* The delay of the armed timer passes.
DelayPasses ==
    /\ pollTimer # NoPoll /\ ~pollDue
    /\ pollDue' = TRUE
    /\ UNCHANGED <<jobData, jobFetch, pollTimer, polls, serverStatus>>

\* The timer fires and the query fetches the job again.
Poll ==
    /\ pollTimer # NoPoll /\ pollDue
    /\ jobFetch = "idle" /\ polls < MaxPolls
    /\ jobFetch' = "fetching"
    /\ polls' = polls + 1
    /\ pollDue' = FALSE
    /\ UNCHANGED <<jobData, pollTimer, serverStatus>>

PollNext ==
    \/ MountJob /\ UNCHANGED <<vars, written, reads, imageVars, startupVars>>
    \/ ServerAdvance /\ UNCHANGED <<vars, written, reads, imageVars, startupVars>>
    \/ JobFetchOk /\ UNCHANGED <<vars, written, reads, imageVars, startupVars>>
    \/ JobFetchFail /\ UNCHANGED <<vars, written, reads, imageVars, startupVars>>
    \/ DelayPasses /\ UNCHANGED <<vars, written, reads, imageVars, startupVars>>
    \/ Poll /\ UNCHANGED <<vars, written, reads, imageVars, startupVars>>

PollSpec == Init /\ [][PollNext]_allVars

\* -------------------------------------------------------------------- C1
\* C1 as stated: at most one refresh call is in flight, the flag is set while
\* it is, and every protected request whose 401 is handled while the flag is
\* set joins the waiting list without a refresh call of its own.
C1_Original ==
    /\ Cardinality(refreshWire) <= 1
    /\ refreshWire # {} => isRefreshing
    /\ (isRefreshing /\ last.op \in {"enqueue", "noRefreshToken"}) =>
          /\ st[last.r] = "queued"
          /\ last.r \notin refreshWire

\* C1 amended: at most one refresh call is in flight and the flag is set while
\* it is; a protected request whose 401 is handled while the flag is set never
\* issues a refresh call of its own: it joins the waiting list when a refresh
\* token is stored, and is rejected by the no-refresh-token path when none is.
C1_SingleFlight ==
    /\ Cardinality(refreshWire) <= 1
    /\ refreshWire # {} => isRefreshing
    /\ (isRefreshing /\ last.op \in {"enqueue", "noRefreshToken"}) =>
          /\ last.r \notin refreshWire
          /\ last.op = "enqueue" =>
                st[last.r] = "queued" /\ last.r \in Range(refreshSubscribers)
          /\ last.op = "noRefreshToken" =>
                st[last.r] = "rejected" /\ localStorage = clearTokens

\* A request has joined the waiting list of a refresh call that is in flight.
C1_Witness ==
    /\ refreshWire # {} /\ isRefreshing
    /\ last.op = "enqueue" /\ st[last.r] = "queued"

\* -------------------------------------------------------------------- C2
\* C2 as stated, in the storm scenario: as long as no refresh call has failed,
\* the requests sent with the expired token cause exactly one refresh call,
\* in whatever order their 401 responses and the refresh response arrive.
C2_Original == redirects = 0 => refreshIssued <= 1

\* C2 amended, in the storm scenario: when a refresh call succeeds, every
\* request whose 401 was handled before that response (the one that started the
\* call and those that joined the waiting list) is replayed with the token of
\* that call and none stays behind; when these are all the requests of the
\* storm, that call is the only one issued.  A 401 handled after the refresh
\* response starts a refresh call of its own.
C2_StormServedByOneCall ==
    last.op = "refreshOk" =>
       /\ \A r \in Req : ~Pending(r)
       /\ \A r \in last.rs : st[r] = "sent" /\ hdr[r] = last.x
       /\ last.rs = AppReq \cup {MeReq} => refreshIssued = 1

\* All the requests of the storm are replayed by one successful refresh call.
C2_Witness ==
    /\ last.op = "refreshOk" /\ last.rs = AppReq \cup {MeReq}
    /\ refreshIssued = 1
    /\ \A r \in last.rs : hdr[r] = FreshToken

\* -------------------------------------------------------------------- C3
\* C3: when the refresh call succeeds, the store holds the new access token
\* when the replays are dispatched, and the request that started the refresh
\* and every request of the waiting list are on the wire again with exactly
\* that token in their Authorization header.
C3_ReplaysCarryNewToken ==
    last.op = "refreshOk" =>
       /\ getAccessToken(localStorage) = last.x
       /\ last.r \in last.rs
       /\ \A r \in Req : st[r] # "queued"
       /\ refreshSubscribers = <<>>
       /\ \A r \in last.rs : st[r] = "sent" /\ hdr[r] = last.x

\* A refresh succeeded with a request waiting, and both requests are on the
\* wire again with the new token.
C3_Witness ==
    /\ last.op = "refreshOk" /\ Cardinality(last.rs) >= 2
    /\ last.x = "A2" /\ hdr[last.r] = "A2"

\* -------------------------------------------------------------------- C4
\* C4 as stated, in the storm scenario: once the refresh call has failed the
\* store is empty and the redirect has been triggered exactly once, however
\* many requests waited or got their 401 around the failure.
C4_Original ==
    redirects > 0 => localStorage = clearTokens /\ redirects = 1

\* C4 amended, in the storm scenario: the failure of the refresh call empties
\* the store and triggers the redirect once, for the request that started the
\* call and not for the waiting ones; every protected request whose 401 is
\* handled after the failure triggers one more redirect by the
\* no-refresh-token path.  So the store is empty from the failure on and the
\* redirects are as many as the rejected requests.
C4_OneRedirectPerRejection ==
    /\ redirects = Cardinality({r \in Req : st[r] = "rejected"})
    /\ redirects > 0 => localStorage = clearTokens
    /\ last.op = "refreshFail" =>
          /\ st[last.r] = "rejected"
          /\ \A r \in last.rs : st[r] = "queued"
          /\ redirects = 1

\* The refresh call failed with a request on the waiting list.
C4_Witness ==
    /\ last.op = "refreshFail" /\ last.rs # {}
    /\ redirects = 1 /\ localStorage = clearTokens

\* -------------------------------------------------------------------- C5
\* C5: a 401 of a protected request while no refresh token is stored issues no
\* refresh call, clears the store, triggers the redirect, and rejects the call
\* with the 401 without replaying or enqueueing it.
C5_NoRefreshTokenPath ==
    [][\A r \in Req :
         (Got401(r) /\ Protected(r) /\ getRefreshToken(localStorage) = None) =>
            /\ refreshIssued' = refreshIssued
            /\ refreshWire' = refreshWire
            /\ refreshSubscribers' = refreshSubscribers
            /\ localStorage' = clearTokens
            /\ redirects' = redirects + 1
            /\ st'[r] = "rejected"]_vars

\* A protected request was rejected by the no-refresh-token path.
C5_Witness ==
    /\ last.op = "noRefreshToken" /\ last.x = Unauthorized
    /\ st[last.r] = "rejected" /\ redirects > 0

\* -------------------------------------------------------------------- C6
\* The step delivers the failure of the refresh call that request c started.
RefreshCallFails(c) ==
    c \in refreshWire /\ c \notin refreshWire' /\ st'[c] = "rejected"

\* What C6 says of a 401 of an authentication endpoint called through the
\* client (login, register, logout): no refresh call, nothing enqueued, the
\* flag and the redirects untouched, the call rejected; the store changes only
\* by what the caller itself does with the rejection (logout clears it).
AuthCallExempt(r) ==
    (Got401(r) /\ url[r] \in AuthEndpoints) =>
       /\ refreshIssued' = refreshIssued
       /\ refreshWire' = refreshWire
       /\ refreshSubscribers' = refreshSubscribers
       /\ isRefreshing' = isRefreshing
       /\ redirects' = redirects
       /\ st'[r] = "rejected"
       /\ localStorage' = IF r = LogoutReq THEN clearTokens ELSE localStorage

\* C6 as stated: a 401 of any authentication endpoint, the refresh endpoint
\* included, issues no refresh call, enqueues nothing, leaves the store as it
\* is and triggers no redirect.
C6_Original ==
    [][/\ \A r \in Req : AuthCallExempt(r)
       /\ \A c \in Req : RefreshCallFails(c) =>
             /\ refreshIssued' = refreshIssued
             /\ refreshSubscribers' = refreshSubscribers
             /\ localStorage' = localStorage
             /\ redirects' = redirects]_vars

\* C6 amended: a 401 of login, register or logout never starts the refresh
\* protocol and has none of its effects; a 401 of the refresh call starts no
\* further refresh call and enqueues nothing either, but it is the failure of
\* the protocol: the handler clears the store, triggers the redirect once and
\* rejects the request that started the refresh.
C6_AuthEndpointsExempt ==
    [][/\ \A r \in Req : AuthCallExempt(r)
       /\ \A c \in Req : RefreshCallFails(c) =>
             /\ refreshIssued' = refreshIssued
             /\ refreshSubscribers' = refreshSubscribers
             /\ localStorage' = clearTokens
             /\ redirects' = redirects + 1]_vars

\* The login call was answered 401 while a refresh token was stored.
C6_Witness ==
    /\ last.op = "passThrough" /\ last.x = Unauthorized
    /\ last.r = LoginReq /\ st[LoginReq] = "rejected"
    /\ getRefreshToken(localStorage) # None

\* -------------------------------------------------------------------- C7
\* C7: a successful refresh replaces the stored access token by the new one,
\* leaves the stored refresh token as it was, and sends the request that
\* started it again with the new token.
C7_RefreshKeepsRefreshToken ==
    [][\A c \in refreshWire :
         (c \notin refreshWire' /\ st'[c] = "sent") =>
            /\ getRefreshToken(localStorage') = getRefreshToken(localStorage)
            /\ getAccessToken(localStorage') = last'.x
            /\ hdr'[c] = last'.x]_vars

\* The scenario: login, a protected call answered 401, the refresh returns A2,
\* the call is retried with A2 and the store holds {A2, R1}.
C7_Witness ==
    /\ last.op = "refreshOk" /\ last.x = "A2"
    /\ st[LoginReq] = "resolved" /\ url[LoginReq] = UrlLogin
    /\ localStorage = setTokens("A2", "R1")
    /\ st[last.r] = "sent" /\ hdr[last.r] = "A2"

C9_WaitingRejectedOnFailure ==
    last.op = "refreshFail" => \A r \in last.rs : st[r] = "rejected"

\* ------------------------------------------------------------------- C10
\* C10: whenever the refresh call settles, isRefreshing is false and the
\* waiting list is empty.
C10_RefreshStateDestroyed ==
    last.op \in {"refreshOk", "refreshFail"} =>
       ~isRefreshing /\ refreshSubscribers = <<>>

\* ------------------------------------------------------------------- C11
\* C11: every request the step puts on the wire through the client, a replay
\* included, carries the access token the store holds at that moment, whenever
\* the store holds one.
C11_DispatchCarriesStoredToken ==
    [][\A r \in Req :
         (Dispatched(r) /\ getAccessToken(localStorage') # None) =>
            hdr'[r] = getAccessToken(localStorage')]_vars

\* A refresh has just replaced the token while the logout call, sent with the
\* old token, is still on the wire: the replay carries the token of the store.
C11_Witness ==
    /\ last.op = "refreshOk"
    /\ hdr[last.r] = getAccessToken(localStorage)
    /\ st[LogoutReq] = "sent" /\ hdr[LogoutReq] \in AccessTokens
    /\ hdr[LogoutReq] # hdr[last.r]

\* ------------------------------------------------------------------- C12
\* C12 as stated: a call to an authentication endpoint (login, register,
\* logout, and the refresh call) goes out without an Authorization header even
\* when an access token is stored.
C12_Original ==
    [][\A r \in Req :
         /\ (Dispatched(r) /\ url'[r] \in AuthEndpoints) => hdr'[r] = None
         /\ RefreshDispatched(r) => hdr'[r] = None]_vars

\* C12 amended: only the refresh call, which is posted through plain axios,
\* goes out without an Authorization header whatever the store holds; login,
\* register and logout go through the client and are decorated as every other
\* call, with the stored access token when there is one and with no header
\* when there is none.
C12_OnlyRefreshUndecorated ==
    [][\A r \in Req :
         /\ (Dispatched(r) /\ url'[r] \in AuthEndpoints) =>
               hdr'[r] = getAccessToken(localStorage')
         /\ RefreshDispatched(r) => hdr'[r] = None]_vars

\* The logout call is on the wire with the stored token in its header while a
\* refresh call is on the wire without one.
C12_Witness ==
    /\ st[LogoutReq] = "sent" /\ url[LogoutReq] = UrlLogout
    /\ hdr[LogoutReq] \in AccessTokens
    /\ \E c \in refreshWire : st[c] = "refreshing" /\ hdr[c] = None
    /\ getAccessToken(localStorage) \in AccessTokens

\* ------------------------------------------------------------------- C13
\* C13: a failure that is not a 401, on any request, is rejected to the caller
\* and the interceptor does nothing else: no refresh call, no replay, nothing
\* enqueued, the flag and the redirects untouched, and the store left as it
\* was (after which fetchUser and logout, in their own catch, clear it).
C13_OtherFailuresPassThrough ==
    [][\A r \in Req :
         GotOtherError(r) =>
            /\ st'[r] = "rejected"
            /\ \A q \in Req : ~Dispatched(q)
            /\ refreshIssued' = refreshIssued
            /\ refreshWire' = refreshWire
            /\ isRefreshing' = isRefreshing
            /\ refreshSubscribers' = refreshSubscribers
            /\ redirects' = redirects
            /\ localStorage' = IF r \in {MeReq, LogoutReq}
                               THEN clearTokens ELSE localStorage]_vars

\* A protected call of a page failed with another status while a refresh was
\* running and a pair was stored: all of that is still as it was.
C13_Witness ==
    /\ last.op = "passThrough" /\ last.x = OtherError /\ last.r \in AppReq
    /\ st[last.r] = "rejected"
    /\ isRefreshing /\ refreshWire # {}
    /\ localStorage \in {setTokens(a, rt) : a \in AccessTokens, rt \in RefreshTokens}
    /\ redirects = 0

\* ------------------------------------------------------------------- C14
\* C14 as stated: when the server's logout call has settled, authApi.logout
\* leaves the store empty, whether the call succeeded or failed.
C14_Original ==
    [][LogoutSettles =>
         authApiLogout(st'[LogoutReq] = "resolved", localStorage)
            = clearTokens]_vars

\* C14 amended: authApi.logout empties the store when the server's logout call
\* succeeds; when the call fails it rejects and leaves the store as it was,
\* and it is its caller, AuthContext.logout, that empties the store then.
C14_ApiLogoutClearsOnSuccess ==
    [][LogoutSettles =>
         /\ st'[LogoutReq] = "resolved" =>
               authApiLogout(TRUE, localStorage) = clearTokens
         /\ st'[LogoutReq] = "rejected" =>
               /\ authApiLogout(FALSE, localStorage) = localStorage
               /\ localStorage' = ContextLogout(localStorage)]_vars

\* The server rejected the logout call of a session that had logged in.
C14_Witness ==
    /\ last.r = LogoutReq /\ last.op = "passThrough"
    /\ st[LogoutReq] = "rejected"
    /\ st[LoginReq] = "resolved" /\ url[LoginReq] = UrlLogin
    /\ localStorage = clearTokens

\* ------------------------------------------------------------------- C15
\* C15: the logout call is never left pending by the refresh protocol, and
\* when it settles, resolved or rejected, AuthContext.logout ends with both
\* tokens absent and the user null.
C15_LogoutAlwaysClears ==
    /\ [](~Pending(LogoutReq))
    /\ [][LogoutSettles =>
            /\ localStorage' = clearTokens
            /\ getAccessToken(localStorage') = None
            /\ getRefreshToken(localStorage') = None
            /\ user' = NoUser]_vars

\* The server answered the logout call of a loaded session with a 401: the
\* store is empty and the user is null.
C15_Witness ==
    /\ last.r = LogoutReq /\ last.x = Unauthorized
    /\ st[LogoutReq] = "rejected" /\ st[MeReq] = "resolved"
    /\ localStorage = clearTokens /\ user = NoUser

\* ------------------------------------------------------------------- C16
\* C16: every read that follows setTokens(a, b) returns a for the access token
\* and b for the refresh token, every read that follows clearTokens() returns
\* absent, however many reads were made in between, and a read leaves the
\* store as it is.
C16_StoreRoundTrip ==
    /\ [](\A i \in 1..Len(reads) :
            /\ (written.op = "setTokens" /\ reads[i].fn = "getAccessToken") =>
                  reads[i].value = written.a
            /\ (written.op = "setTokens" /\ reads[i].fn = "getRefreshToken") =>
                  reads[i].value = written.b
            /\ written.op = "clearTokens" => reads[i].value = None)
    /\ [][Len(reads') > Len(reads) => localStorage' = localStorage]_storeVars

\* setTokens("A2", "R1") was followed by a read of each token.
C16_Witness ==
    /\ written = Write("setTokens", "A2", "R1")
    /\ reads = <<Read("getRefreshToken", "R1"), Read("getAccessToken", "A2")>>

\* ------------------------------------------------------------------- C17
\* C17: at most one object URL the instance created is live in any state, and
\* once the instance has left the tree none is, also when a fetch completes
\* after that.
C17_AtMostOneLiveUrl ==
    /\ Cardinality(LiveUrls) <= 1
    /\ ~mounted => LiveUrls = {}

\* The instance showed two sources, left the tree while the fetch of a third
\* was running, and that fetch resolved afterwards: nothing is live.
C17_Witness ==
    /\ ~mounted /\ created = 2 /\ Len(effects) = 3
    /\ Current.fetch = "resolved" /\ Current.objectUrl = NoUrl
    /\ \A u \in 1..created : revoked[u] >= 1

\* ------------------------------------------------------------------- C18
\* C18: every object URL the instance created is revoked at most once while
\* the instance lives, and exactly once when it has left the tree.
C18_RevokedExactlyOnce ==
    \A u \in 1..created :
       /\ revoked[u] <= 1
       /\ (~mounted /\ effects # <<>>) => revoked[u] = 1

\* ------------------------------------------------------------------- C19
\* C19: whenever the mounted instance renders <img src={blobUrl}>, that
\* blobUrl has not been revoked.
C19_DisplayedUrlNotRevoked == ShowsImage => revoked[blobUrl] = 0

\* ------------------------------------------------------------------- C20
\* C20: the instance goes from Loading to Loaded or Errored and back to
\* Loading, which it enters on mount and on every change of src; the result
\* of a fetch that completes after its run was cleaned up (src changed, or the
\* instance left the tree) changes no state and creates no URL; and once the
\* fetch of the current src has completed, the state is the outcome of that
\* fetch: Loaded with the URL made from its response, or Errored.
C20_StateMachine ==
    /\ [][/\ (mounted' /\ Phase' # Phase) =>
                \/ Phase = "Loading" /\ Phase' \in {"Loaded", "Errored"}
                \/ Phase' = "Loading"
          /\ (mounted' /\ src' # src) => Phase' = "Loading"
          /\ (mounted' /\ ~mounted) => Phase' = "Loading"
          /\ \A i \in 1..(MaxSrcChanges + 1) :
                StaleCompletion(i) =>
                   UNCHANGED <<blobUrl, isLoading, hasError, updates,
                               created, revoked>>]_imageVars
    /\ [](mounted =>
            /\ Current.fetch = "pending" => Phase = "Loading"
            /\ Current.fetch = "rejected" => Phase = "Errored"
            /\ Current.fetch = "resolved" =>
                  /\ Phase = "Loaded"
                  /\ Applied(updates.blobUrl, blobUrl) = Current.objectUrl
                  /\ Current.objectUrl # NoUrl)

\* The fetch of the first src resolved after src had changed, the fetch of the
\* second src failed: the instance renders the error, and no URL was created.
C20_Witness ==
    /\ mounted /\ Len(effects) = 2 /\ updates = NoUpdates
    /\ effects[1].fetch = "resolved" /\ effects[1].objectUrl = NoUrl
    /\ Current.fetch = "rejected"
    /\ hasError /\ ~isLoading /\ created = 0

\* ------------------------------------------------------------------- C21
\* C21 as stated: a failed media fetch only moves the instance to Errored; the
\* token store, the user and the redirects are as before.
C21_Original ==
    [][MediaFetchFails =>
         /\ mounted => Phase' = "Errored"
         /\ localStorage' = localStorage
         /\ user' = user
         /\ redirects' = redirects]_allVars

\* C21 amended: a failed media fetch moves the instance, when it is still
\* mounted, to Errored and never changes the user.  When the failure is not a
\* 401 the token store is unchanged and no redirect happens.  When it is a
\* 401, the image's call is a protected call of the client: it is rejected
\* only by the no-refresh-token path or by the failure of the refresh it
\* started, and both clear the token store and trigger the redirect.
C21_MediaFailure ==
    [][MediaFetchFails =>
         /\ mounted => Phase' = "Errored"
         /\ user' = user
         /\ last'.r = MediaReq /\ st'[MediaReq] = "rejected"
         /\ last'.x = OtherError =>
               localStorage' = localStorage /\ redirects' = redirects
         /\ last'.x = Unauthorized =>
               /\ last'.op \in {"noRefreshToken", "refreshFail"}
               /\ localStorage' = clearTokens
               /\ redirects' = redirects + 1]_allVars

\* The image's call got a 401 while a user was loaded and the store held an
\* access token but no refresh token: the image shows the error, the store
\* is empty and the page was redirected.
C21_Witness ==
    /\ mounted /\ hasError /\ ~isLoading
    /\ last.op = "noRefreshToken" /\ last.r = MediaReq
    /\ st[MediaReq] = "rejected" /\ st[MeReq] = "resolved"
    /\ user = SomeUser /\ localStorage = clearTokens /\ redirects = 1

\* ------------------------------------------------------------------- C22
\* C22: a request that joins the waiting list is registered behind those
\* already waiting; when the refresh succeeds, the waiting requests are
\* dispatched again in the order of their registration, each once and all with
\* the token of the refresh, the request that started the refresh is
\* dispatched after all of them, and the list is left empty.
C22_FlushInRegistrationOrder ==
    [][/\ \A r \in Req :
            (st[r] = "sent" /\ st'[r] = "queued") =>
               refreshSubscribers' = Append(refreshSubscribers, r)
       /\ \A c \in refreshWire :
            (c \notin refreshWire' /\ st'[c] = "sent") =>
               /\ last'.order = Append(refreshSubscribers, c)
               /\ \A i, j \in 1..Len(last'.order) :
                     i # j => last'.order[i] # last'.order[j]
               /\ \A i \in 1..Len(last'.order) :
                     /\ st'[last'.order[i]] = "sent"
                     /\ hdr'[last'.order[i]] = last'.x
               /\ refreshSubscribers' = <<>>]_allVars

\* The image's call started a refresh, the current-user call and then a call
\* of the page joined the waiting list, and the refresh succeeded.
C22_Witness ==
    /\ last.op = "refreshOk" /\ last.r = MediaReq
    /\ last.order = <<MeReq, <<"app", 1>>, MediaReq>>
    /\ \A r \in last.rs : hdr[r] = last.x

\* ------------------------------------------------------------------- C23
\* The step leaves the refresh call that is in flight unsettled.
RefreshStaysInFlight == refreshWire # {} /\ refreshWire' = refreshWire

\* C23 as stated: as long as the refresh call in flight does not settle, the
\* flag stays set, no further refresh call is issued, the request that started
\* the refresh and the waiting requests stay unresolved, and every protected
\* request that receives a 401 stays unresolved as well.
C23_Original ==
    [][RefreshStaysInFlight =>
         /\ isRefreshing /\ isRefreshing'
         /\ refreshIssued' = refreshIssued
         /\ \A r \in Req : st[r] = "refreshing" => st'[r] = "refreshing"
         /\ \A r \in Req : st[r] = "queued" => st'[r] = "queued"
         /\ \A r \in Req :
               (Got401(r) /\ StartsProtocol(Unauthorized, url[r])) =>
                  Pending(r)']_allVars

\* C23 amended: as long as the refresh call in flight does not settle, the
\* flag stays set, no further refresh call is issued, and the request that
\* started the refresh and the waiting requests stay unresolved; a protected
\* request that receives a 401 meanwhile joins the waiting list and stays
\* unresolved when a refresh token is stored, and is rejected by the
\* no-refresh-token path, which clears the store and redirects, when the store
\* holds no refresh token any more.
C23_HangsWhileUnsettled ==
    [][RefreshStaysInFlight =>
         /\ isRefreshing /\ isRefreshing'
         /\ refreshIssued' = refreshIssued
         /\ \A r \in Req : st[r] = "refreshing" => st'[r] = "refreshing"
         /\ \A r \in Req : st[r] = "queued" => st'[r] = "queued"
         /\ \A r \in Req :
               (Got401(r) /\ StartsProtocol(Unauthorized, url[r])) =>
                  IF getRefreshToken(localStorage) # None
                  THEN /\ st'[r] = "queued"
                       /\ r \in Range(refreshSubscribers')
                       /\ localStorage' = localStorage
                       /\ redirects' = redirects
                  ELSE /\ st'[r] = "rejected"
                       /\ localStorage' = clearTokens
                       /\ redirects' = redirects + 1]_allVars

\* While the refresh call of the first call of the page is in flight, the
\* current-user call has received a 401 and waits.
C23_Witness ==
    /\ refreshWire = {<<"app", 1>>} /\ isRefreshing
    /\ st[<<"app", 1>>] = "refreshing"
    /\ last.op = "enqueue" /\ last.r = MeReq
    /\ st[MeReq] = "queued" /\ MeReq \in Range(refreshSubscribers)

\* ------------------------------------------------------------------- C24
\* C24: when the replay that a successful refresh has just dispatched for a
\* protected call is answered with a 401, the call is rejected: the step
\* neither starts another refresh call nor puts the call on the waiting list.
C24_ReplayRejectedOn401 ==
    [][\A r \in Req :
         (last.op = "refreshOk" /\ r \in last.rs /\ Got401(r)) =>
            /\ st'[r] = "rejected"
            /\ refreshIssued' = refreshIssued
            /\ refreshWire' = refreshWire]_allVars

\* ------------------------------------------------------------------- C25
\* C25: in every reachable state the store holds an access token only if it
\* holds a refresh token as well.
C25_AccessImpliesRefresh ==
    getAccessToken(localStorage) # None => getRefreshToken(localStorage) # None

\* ------------------------------------------------------------------- C26
\* C26: once the logout of the session has completed and the store is empty,
\* the store stays empty in every step but that of a successful login.
C26_EmptyAfterLogout ==
    [][(Settled(LogoutReq) /\ localStorage = clearTokens) =>
          (localStorage' = clearTokens \/ last'.op = "loginOk")]_allVars

\* ------------------------------------------------------------------- C27
\* The login call of AuthContext.login is on the wire.
LoginInFlight == st[LoginReq] = "sent" /\ url[LoginReq] = UrlLogin

\* C27: the step that sends the login call leaves the store and the user
\* alone and sends no current-user call; the step in which the login call
\* succeeds stores the pair of the response and sends the current-user call
\* with the new access token; the step in which the login call fails rejects
\* login(), leaves the store and the user unchanged and sends no current-user
\* call.
C27_LoginStoresThenFetches ==
    [][/\ (Dispatched(LoginReq) /\ url'[LoginReq] = UrlLogin) =>
             /\ localStorage' = localStorage /\ user' = user
             /\ st'[MeReq] # "sent"
       /\ (LoginInFlight /\ st'[LoginReq] = "resolved") =>
             /\ getAccessToken(localStorage') \in AccessTokens
             /\ getRefreshToken(localStorage') \in RefreshTokens
             /\ getAccessToken(localStorage') = last'.x
             /\ Dispatched(MeReq) /\ url'[MeReq] = UrlMe
             /\ hdr'[MeReq] = getAccessToken(localStorage')
       /\ (LoginInFlight /\ st'[LoginReq] = "rejected") =>
             /\ localStorage' = localStorage /\ user' = user
             /\ st'[MeReq] # "sent"
       /\ (Dispatched(MeReq) /\ st[MeReq] = "reserved") =>
             LoginInFlight /\ st'[LoginReq] = "resolved"]_allVars

\* A login has succeeded with the pair {A2, R2}: the store holds that pair and
\* the current-user call is on the wire with its access token.
C27_Witness ==
    /\ last.op = "loginOk" /\ last.x = "A2"
    /\ st[LoginReq] = "resolved" /\ st[MeReq] = "sent"
    /\ localStorage = setTokens("A2", "R2")
    /\ hdr[MeReq] = "A2"

\* ------------------------------------------------------------------- C28
\* Mutant of fetchUserOutcome: fetchUser has no catch.
fetchUserOutcome_Rethrows(me) ==
    IF me \in {"resolved", "rejected"} THEN me ELSE "pending"

\* AuthContext.tsx:21-29, the promise of fetchUser as a function of the state
\* of its current-user call: the catch swallows the failure.
fetchUserOutcome(me) ==
    IF me \in {"resolved", "rejected"} THEN "resolved" ELSE "pending"

\* AuthContext.tsx:42-46, the promise of login(): it rejects with the login
\* call and otherwise settles as fetchUser does.
loginOutcome ==
    IF st[LoginReq] = "rejected" THEN "rejected"
    ELSE IF st[LoginReq] = "resolved" THEN fetchUserOutcome(st[MeReq])
    ELSE "pending"

\* The step delivers the failure of the current-user call to fetchUser.
MeFails == st[MeReq] \in {"sent", "refreshing"} /\ st'[MeReq] = "rejected"

\* C28: when the current-user call fails, with a 401 or otherwise, fetchUser
\* resolves, the user is null and the store is empty; when it succeeds,
\* fetchUser resolves, the user is set and the store is unchanged; login()
\* resolves when the current-user call that follows a successful login call
\* settles, also when it fails.
C28_FetchUserNeverRejects ==
    [][/\ MeFails =>
             /\ fetchUserOutcome(st'[MeReq]) = "resolved"
             /\ user' = NoUser
             /\ localStorage' = clearTokens
       /\ (st[MeReq] = "sent" /\ st'[MeReq] = "resolved") =>
             /\ fetchUserOutcome(st'[MeReq]) = "resolved"
             /\ user' = SomeUser
             /\ localStorage' = localStorage
       /\ (st[LoginReq] = "resolved" /\ url[LoginReq] = UrlLogin
             /\ ~Settled(MeReq) /\ Settled(MeReq)') =>
             loginOutcome' = "resolved"]_allVars

\* A login call succeeded and the current-user call that followed it has
\* failed with an error that is not a 401: login() has resolved, no user is
\* set and the store is empty.
C28_Witness ==
    /\ st[LoginReq] = "resolved" /\ url[LoginReq] = UrlLogin
    /\ last.op = "passThrough" /\ last.r = MeReq /\ last.x = OtherError
    /\ st[MeReq] = "rejected"
    /\ loginOutcome = "resolved"
    /\ user = NoUser /\ localStorage = clearTokens

\* ------------------------------------------------------------------- C29
\* C29: isLoading is true until initAuth has run; initAuth sends the
\* current-user call exactly when an access token is stored, and without a
\* stored token isLoading becomes false at once; with one it becomes false in
\* the step that settles that call and in no other step; once false it never
\* becomes true again; and isAuthenticated is true only when a current-user
\* call has succeeded.
C29_StartupLoading ==
    [][/\ initAuth = "notRun" => sessionIsLoading
       /\ (initAuth = "notRun" /\ initAuth' # "notRun") =>
             /\ Dispatched(MeReq) <=> getAccessToken(localStorage) # None
             /\ sessionIsLoading' <=> getAccessToken(localStorage) # None
       /\ (sessionIsLoading /\ ~sessionIsLoading') =>
             \/ initAuth = "notRun" /\ getAccessToken(localStorage) = None
             \/ InitAuthFetchSettles
       /\ InitAuthFetchSettles => ~sessionIsLoading'
       /\ ~sessionIsLoading => ~sessionIsLoading'
       /\ isAuthenticated' => st'[MeReq] = "resolved"]_allVars

\* The session started with a stored token, the current-user call of initAuth
\* has just succeeded: loading is over and the session is authenticated.
C29_Witness ==
    /\ initAuth = "done" /\ ~sessionIsLoading
    /\ last.op = "ok" /\ last.r = MeReq
    /\ st[MeReq] = "resolved" /\ st[LoginReq] = "idle"
    /\ isAuthenticated

\* ------------------------------------------------------------------- C30
\* C30: the refetch timer of the job-details page is armed, with a delay of
\* 2000 ms, exactly while the status the query holds is pending or running;
\* the timer starts a fetch only when that delay has passed and the held
\* status is pending or running; while the query holds no data or a
\* completed or failed job the timer starts no fetch, and a held completed or
\* failed status is never replaced.
C30_PollsWhileActive ==
    [][/\ pollTimer' \in {NoPoll, PollInterval}
       /\ pollTimer' = PollInterval <=> jobData' \in {"pending", "running"}
       /\ polls' # polls =>
             /\ polls' = polls + 1
             /\ jobData \in {"pending", "running"}
             /\ pollTimer = PollInterval /\ pollDue
             /\ jobFetch' = "fetching"
       /\ jobData \in {NoData, "completed", "failed"} => polls' = polls
       /\ jobData \in {"completed", "failed"} =>
             jobData' = jobData /\ jobFetch' = jobFetch]_allVars

\* The timer has started two fetches while the job was pending or running;
\* the last fetch has brought the completed job and no timer is armed.
C30_Witness ==
    /\ polls = 2
    /\ jobData = "completed" /\ jobFetch = "idle"
    /\ pollTimer = NoPoll /\ ~pollDue

====
